---- MODULE Spec2Model ----
(***************************************************************************)
(* dhcpcd, if-linux.c: the netlink channel to the kernel.                  *)
(*                                                                         *)
(* The module models the attribute codec (add_attr_l, add_attr_32 and the  *)
(* RTA_OK / RTA_NEXT walk), the receive pump (get_netlink) with its two    *)
(* handlers (err_netlink, link_netlink), the transaction client            *)
(* (send_netlink) and the request builders (if_address, if_route), as one  *)
(* single-threaded state machine whose steps are the system calls.         *)
(*                                                                         *)
(* Bytes are naturals 0..255, buffers are sequences of bytes, 16- and      *)
(* 32-bit fields are little-endian, flag words are sets of flag bits.      *)
(***************************************************************************)
EXTENDS Integers, Sequences, FiniteSets, TLC

(* ------------------------------ bounds -------------------------------- *)

\* transactions (stamped sequence numbers) followed in one run
MaxTx == 2
\* receive calls made by one pump call
MaxRecv == 2
\* file descriptors the process may hold
MaxFd == 2
\* messages the kernel puts in one datagram
MaxMsgs == 2
\* attributes appended to one message on the codec bench
MaxAppends == 3

(* ------------------------- program constants -------------------------- *)

BUFFERLEN == 256
IF_NAMESIZE == 16
NLMSG_ALIGNTO == 4
RTA_ALIGNTO == 4
\* sizeof(struct nlmsghdr), sizeof(struct rtattr), sizeof(uint32_t)
SizeofNlmsghdr == 16
SizeofRtattr == 4
SizeofU32 == 4
SizeofIfinfomsg == 16
SizeofIfaddrmsg == 8
SizeofRtmsg == 12
\* sizeof(struct nlmsgerr): the error code and the echoed header
SizeofNlmsgerr == 20
\* char buffer[64] of struct nlma, char buffer[256] of struct nlmr
NlmaBuffer == 64
NlmrBuffer == 256

NLMSG_NOOP == 1
NLMSG_ERROR == 2
RTM_NEWLINK == 16
RTM_DELLINK == 17
RTM_NEWADDR == 20
RTM_DELADDR == 21
RTM_NEWROUTE == 24
RTM_DELROUTE == 25

NLM_F_REQUEST == 1
NLM_F_ACK == 4
NLM_F_REPLACE == 256
NLM_F_EXCL == 512
NLM_F_CREATE == 1024

IFF_UP == 1
IFF_LOOPBACK == 8
IFLA_IFNAME == 3
IFLA_WIRELESS == 11
IFA_LOCAL == 2
IFA_LABEL == 3
IFA_BROADCAST == 4
RTA_DST == 1
RTA_OIF == 4
RTA_GATEWAY == 5
RTA_PRIORITY == 6
RTA_PREFSRC == 7

AF_INET == 2
RT_TABLE_MAIN == 254
RT_SCOPE_UNIVERSE == 0
RT_SCOPE_LINK == 253
RT_SCOPE_NOWHERE == 255
RTN_UNICAST == 1
RTPROT_KERNEL == 2
RTPROT_BOOT == 3
MSG_DONTWAIT == 64

EINTR == 4
EAGAIN == 11
EACCES == 13
ENODEV == 19
EMFILE == 24
EBADMSG == 74
ENOBUFS == 105

(* A 32-bit word whose whole range matters (the sequence counter, the     *)
(* change mask) is kept as its four bytes, least significant first.       *)
Zero32 == << 0, 0, 0, 0 >>
\* ~0U
AllBits == << 255, 255, 255, 255 >>

(* ------------------------------- bytes -------------------------------- *)

Byte == 0 .. 255

Min(a, b) == IF a < b THEN a ELSE b

Zeros(n) == [i \in 1 .. n |-> 0]

\* an unsigned short / a uint32_t as the bytes memcpy moves (little-endian)
U16(v) == << v % 256, (v \div 256) % 256 >>
U32(v) == << v % 256, (v \div 256) % 256, (v \div 65536) % 256, (v \div 16777216) % 256 >>

\* the unsigned short at byte offset off (0-based) of mem
Get16(mem, off) == mem[off + 1] + 256 * mem[off + 2]

\* memcpy(mem + off, data, n)
Memcpy(mem, off, data, n) ==
  SubSeq(mem, 1, off) \o SubSeq(data, 1, n) \o SubSeq(mem, off + n + 1, Len(mem))

NLMSG_ALIGN(len) == ((len + NLMSG_ALIGNTO - 1) \div NLMSG_ALIGNTO) * NLMSG_ALIGNTO
NLMSG_LENGTH(len) == len + NLMSG_ALIGN(SizeofNlmsghdr)
NLMSG_SPACE(len) == NLMSG_ALIGN(NLMSG_LENGTH(len))
RTA_ALIGN(len) == ((len + RTA_ALIGNTO - 1) \div RTA_ALIGNTO) * RTA_ALIGNTO
\* a faulty RTA_LENGTH: the padding counted in rta_len
RTA_LENGTH_padded(len) == RTA_ALIGN(SizeofRtattr + len)

RTA_LENGTH(len) == RTA_ALIGN(SizeofRtattr) + len

(* -------------------------- attribute codec --------------------------- *)

(* A request is the struct nlma or struct nlmr the builder allocates:      *)
(*   hdr     the struct nlmsghdr fields the code sets                      *)
(*   fix     the struct ifaddrmsg or struct rtmsg fields the code sets     *)
(*   fixlen  sizeof of that struct                                         *)
(*   buffer  the trailing char buffer[], zeroed by xzalloc                 *)

\* offsetof(struct nlma, buffer), offsetof(struct nlmr, buffer)
BufferOffset(n) == SizeofNlmsghdr + n.fixlen

\* NLMSG_TAIL(nmsg), as an offset into n.buffer
NLMSG_TAIL(n) == NLMSG_ALIGN(n.hdr.nlmsg_len) - BufferOffset(n)

\* rta->rta_type = type; rta->rta_len = len; memcpy(RTA_DATA(rta), data, alen)
RtaStore(buffer, off, type, len, data, alen) ==
  Memcpy(Memcpy(Memcpy(buffer, off, U16(len), 2), off + 2, U16(type), 2),
         off + RTA_LENGTH(0), data, alen)

\* a faulty add_attr_l: nlmsg_len advanced by len, not by RTA_ALIGN(len)
add_attr_l_unaligned(n, maxlen, type, data, alen) ==
  LET len == RTA_LENGTH(alen) IN
  IF NLMSG_ALIGN(n.hdr.nlmsg_len) + RTA_ALIGN(len) > maxlen
    THEN [r |-> -1, err |-> ENOBUFS, n |-> n]
    ELSE [r |-> 0, err |-> 0,
          n |-> [n EXCEPT
                  !.buffer = RtaStore(n.buffer, NLMSG_TAIL(n), type, len, data, alen),
                  !.hdr.nlmsg_len = NLMSG_ALIGN(n.hdr.nlmsg_len) + len]]

\* a faulty add_attr_l: >= for >, so an attribute that fills the buffer to its
\* last byte is refused
add_attr_l_strict(n, maxlen, type, data, alen) ==
  LET len == RTA_LENGTH(alen) IN
  IF NLMSG_ALIGN(n.hdr.nlmsg_len) + RTA_ALIGN(len) >= maxlen
    THEN [r |-> -1, err |-> ENOBUFS, n |-> n]
    ELSE [r |-> 0, err |-> 0,
          n |-> [n EXCEPT
                  !.buffer = RtaStore(n.buffer, NLMSG_TAIL(n), type, len, data, alen),
                  !.hdr.nlmsg_len = NLMSG_ALIGN(n.hdr.nlmsg_len) + RTA_ALIGN(len)]]

\* the result of an append: r the return value, err the errno it set (0: none)
add_attr_l(n, maxlen, type, data, alen) ==
  LET len == RTA_LENGTH(alen) IN
  IF NLMSG_ALIGN(n.hdr.nlmsg_len) + RTA_ALIGN(len) > maxlen
    THEN [r |-> -1, err |-> ENOBUFS, n |-> n]
    ELSE [r |-> 0, err |-> 0,
          n |-> [n EXCEPT
                  !.buffer = RtaStore(n.buffer, NLMSG_TAIL(n), type, len, data, alen),
                  !.hdr.nlmsg_len = NLMSG_ALIGN(n.hdr.nlmsg_len) + RTA_ALIGN(len)]]

add_attr_32(n, maxlen, type, data) ==
  LET len == RTA_LENGTH(SizeofU32) IN
  IF NLMSG_ALIGN(n.hdr.nlmsg_len) + len > maxlen
    THEN [r |-> -1, err |-> ENOBUFS, n |-> n]
    ELSE [r |-> 0, err |-> 0,
          n |-> [n EXCEPT
                  !.buffer = RtaStore(n.buffer, NLMSG_TAIL(n), type, len, U32(data), SizeofU32),
                  !.hdr.nlmsg_len = NLMSG_ALIGN(n.hdr.nlmsg_len) + len]]

\* RTA_OK(rta, len), rta at offset off of mem
RTA_OK(mem, off, len) ==
  /\ len >= SizeofRtattr
  /\ Get16(mem, off) >= SizeofRtattr
  /\ Get16(mem, off) <= len

\* rta->rta_type, RTA_DATA(rta) .. RTA_DATA(rta) + RTA_PAYLOAD(rta)
RtaType(mem, off) == Get16(mem, off + 2)
RtaData(mem, off) == SubSeq(mem, off + RTA_LENGTH(0) + 1, off + Get16(mem, off))

\* the walk  while (RTA_OK(rta, len)) { ...; rta = RTA_NEXT(rta, len); }
\* collecting each attribute it visits
RECURSIVE RtaWalk(_, _, _)
RtaWalk(mem, off, len) ==
  IF ~RTA_OK(mem, off, len) THEN << >>
  ELSE << [rta_type |-> RtaType(mem, off), data |-> RtaData(mem, off)] >>
       \o RtaWalk(mem, off + RTA_ALIGN(Get16(mem, off)), len - RTA_ALIGN(Get16(mem, off)))

\* the attributes of a request, read back from its bytes
Attrs(n) == RtaWalk(n.buffer, 0, n.hdr.nlmsg_len - BufferOffset(n))

\* the C string at offset off of mem: the bytes before the first NUL
RECURSIVE CStr(_, _)
CStr(mem, off) ==
  IF off >= Len(mem) \/ mem[off + 1] = 0 THEN << >>
  ELSE << mem[off + 1] >> \o CStr(mem, off + 1)

\* strlcpy(dst, src, size): at most size - 1 characters of the C string
strlcpy(mem, off, size) ==
  LET s == CStr(mem, off) IN SubSeq(s, 1, Min(Len(s), size - 1))

(* ----------------------------- handlers ------------------------------- *)

(* A message the kernel sends:                                             *)
(*   nlmsg_len, nlmsg_type   its header                                    *)
(*   error                   the code of a struct nlmsgerr payload         *)
(*   ifi_flags, ifi_change   the fields of a struct ifinfomsg payload      *)
(*   rtbuf                   the bytes after the struct ifinfomsg          *)
(*   attrs                   the attributes the kernel encoded in rtbuf    *)
(* A handler's result is r, its return value, err, the errno it set        *)
(* (0: none), and calls, the listener calls it made, in order.             *)

\* a faulty err_netlink: the error code is not looked at
err_netlink_nocode(nlm) ==
  LET l == nlm.nlmsg_len - SizeofNlmsghdr IN
  IF nlm.nlmsg_type # NLMSG_ERROR THEN [r |-> 0, err |-> 0, calls |-> << >>]
  ELSE IF l < SizeofNlmsgerr THEN [r |-> -1, err |-> EBADMSG, calls |-> << >>]
  ELSE [r |-> l, err |-> 0, calls |-> << >>]

\* (size_t)l is l: NLMSG_OK has made nlmsg_len at least sizeof(*nlm)
err_netlink(nlm) ==
  LET l == nlm.nlmsg_len - SizeofNlmsghdr IN
  IF nlm.nlmsg_type # NLMSG_ERROR THEN [r |-> 0, err |-> 0, calls |-> << >>]
  ELSE IF l < SizeofNlmsgerr THEN [r |-> -1, err |-> EBADMSG, calls |-> << >>]
  ELSE IF nlm.error = 0 THEN [r |-> l, err |-> 0, calls |-> << >>]
  ELSE [r |-> -1, err |-> -nlm.error, calls |-> << >>]

\* a faulty attribute loop: no case IFLA_WIRELESS
RECURSIVE LinkScan_nowireless(_, _, _, _, _)
LinkScan_nowireless(nlm, off, len, ifn, mem) ==
  IF ~RTA_OK(mem, off, len) THEN [noise |-> FALSE, ifn |-> ifn]
  ELSE LinkScan_nowireless(nlm, off + RTA_ALIGN(Get16(mem, off)),
                           len - RTA_ALIGN(Get16(mem, off)),
                           IF RtaType(mem, off) = IFLA_IFNAME
                             THEN strlcpy(mem, off + RTA_LENGTH(0), IF_NAMESIZE + 1)
                             ELSE ifn,
                           mem)

\* the attribute loop of link_netlink: noise when it returns 1 from inside
\* the loop, ifn the name it has copied when the loop ends
RECURSIVE LinkScan(_, _, _, _, _)
LinkScan(nlm, off, len, ifn, mem) ==
  IF ~RTA_OK(mem, off, len) THEN [noise |-> FALSE, ifn |-> ifn]
  ELSE IF /\ RtaType(mem, off) = IFLA_WIRELESS
          /\ nlm.nlmsg_type = RTM_NEWLINK
          /\ nlm.ifi_change = Zero32
    THEN [noise |-> TRUE, ifn |-> ifn]
  ELSE LinkScan(nlm, off + RTA_ALIGN(Get16(mem, off)), len - RTA_ALIGN(Get16(mem, off)),
                IF RtaType(mem, off) = IFLA_IFNAME
                  THEN strlcpy(mem, off + RTA_LENGTH(0), IF_NAMESIZE + 1)
                  ELSE ifn,
                mem)

\* the listener call, made if the listener is registered
Dispatch(nl, cb, ifn) ==
  IF cb \in nl THEN << [cb |-> cb, ifn |-> ifn] >> ELSE << >>

\* a faulty classification: ifi_change != 0 for ifi_change == ~0U
LinkEvent_anychange(type, change) ==
  IF type = RTM_NEWLINK
    THEN IF change # Zero32 THEN "nl_add" ELSE "nl_carrier"
    ELSE "nl_remove"

\* the listener a link message is for
LinkEvent(type, change) ==
  IF type = RTM_NEWLINK
    THEN IF change = AllBits THEN "nl_add" ELSE "nl_carrier"
    ELSE "nl_remove"

link_netlink(nlm, nl) ==
  LET len == nlm.nlmsg_len - SizeofNlmsghdr
      scan == LinkScan(nlm, 0, nlm.nlmsg_len - NLMSG_SPACE(SizeofIfinfomsg), << >>, nlm.rtbuf)
  IN
  IF nlm.nlmsg_type # RTM_NEWLINK /\ nlm.nlmsg_type # RTM_DELLINK
    THEN [r |-> 0, err |-> 0, calls |-> << >>]
  ELSE IF len < SizeofIfinfomsg THEN [r |-> -1, err |-> EBADMSG, calls |-> << >>]
  ELSE IF IFF_LOOPBACK \in nlm.ifi_flags THEN [r |-> 1, err |-> 0, calls |-> << >>]
  ELSE IF scan.noise THEN [r |-> 1, err |-> 0, calls |-> << >>]
  ELSE [r |-> 1, err |-> 0,
        calls |-> Dispatch(nl, LinkEvent(nlm.nlmsg_type, nlm.ifi_change), scan.ifn)]

(* ----------------------------- builders ------------------------------- *)

INADDR_ANY == << 0, 0, 0, 0 >>

\* sizeof(*nlm)
Sizeof(n) == SizeofNlmsghdr + n.fixlen + Len(n.buffer)

\* a faulty lookup: every name has index 1
if_nametoindex_any(tab, name) == 1

\* if_nametoindex(name) against the kernel's interface table (0: no such name)
if_nametoindex(tab, name) == IF name \in DOMAIN tab THEN tab[name] ELSE 0

\* the number of one bits of a byte, of an address
RECURSIVE Ones(_)
Ones(b) == IF b = 0 THEN 0 ELSE (b % 2) + Ones(b \div 2)
inet_ntocidr(mask) == Ones(mask[1]) + Ones(mask[2]) + Ones(mask[3]) + Ones(mask[4])

\* errno after a run of appends: ENOBUFS if one failed, else as it was (0)
AppendErrno(results) ==
  IF \E i \in 1 .. Len(results) : results[i].r = -1 THEN ENOBUFS ELSE 0

\* xzalloc(sizeof(*nlm)) of a struct with a fixed part of fixlen bytes and a
\* buffer of buflen, and nlmsg_len = NLMSG_LENGTH(fixlen)
Alloc(fixlen, buflen) ==
  [hdr |-> [nlmsg_len |-> NLMSG_LENGTH(fixlen), nlmsg_type |-> 0, nlmsg_flags |-> {},
            nlmsg_seq |-> Zero32],
   \* struct ifaddrmsg or struct rtmsg, the fields named alike
   fix |-> [family |-> 0, prefixlen |-> 0, index |-> 0, table |-> 0,
            protocol |-> 0, scope |-> 0, type |-> 0],
   fixlen |-> fixlen,
   buffer |-> Zeros(buflen)]

\* faulty tests: action > 0 for action >= 0, action <= 0 for action != 1
HasBroadcast_positive(action) == action > 0
HasPrefsrc_nonpositive(action) == action <= 0

\* if (action >= 0) add_attr_l(.. IFA_BROADCAST ..)
HasBroadcast(action) == action >= 0

\* if (action != 1) add_attr_l(.. RTA_PREFSRC ..)
HasPrefsrc(action) == action # 1

(* if_address up to its call of send_netlink: r = -1 is the early return,  *)
(* r = 0 the message n handed to send_netlink; err the errno set (0: none) *)
if_address(tab, iface, address, netmask, broadcast, action) ==
  LET index == if_nametoindex(tab, iface.name)
      n0 == [Alloc(SizeofIfaddrmsg, NlmaBuffer) EXCEPT
               !.hdr.nlmsg_type = IF action >= 0 THEN RTM_NEWADDR ELSE RTM_DELADDR,
               !.hdr.nlmsg_flags = IF action >= 0
                                     THEN {NLM_F_REQUEST, NLM_F_CREATE, NLM_F_REPLACE}
                                     ELSE {NLM_F_REQUEST},
               !.fix.index = index,
               !.fix.family = AF_INET,
               !.fix.prefixlen = inet_ntocidr(netmask)]
      a1 == add_attr_l(n0, Sizeof(n0), IFA_LABEL, iface.name \o << 0 >>, Len(iface.name) + 1)
      a2 == add_attr_l(a1.n, Sizeof(n0), IFA_LOCAL, address, SizeofU32)
      a3 == IF HasBroadcast(action)
              THEN add_attr_l(a2.n, Sizeof(n0), IFA_BROADCAST, broadcast, SizeofU32)
              ELSE a2
  IN
  IF index = 0 THEN [r |-> -1, err |-> ENODEV, n |-> n0]
  ELSE [r |-> 0, err |-> AppendErrno(<< a1, a2, a3 >>), n |-> a3.n]

if_route(tab, iface, destination, netmask, gateway, metric, action) ==
  LET ifindex == if_nametoindex(tab, iface.name)
      delete == (action = -1 \/ action = -2)
      n0 == [Alloc(SizeofRtmsg, NlmrBuffer) EXCEPT
               !.hdr.nlmsg_type = IF action = 0 \/ action = 1
                                    THEN RTM_NEWROUTE ELSE RTM_DELROUTE,
               !.hdr.nlmsg_flags =
                  (IF action = 0 THEN {NLM_F_REPLACE}
                   ELSE IF action = 1 THEN {NLM_F_CREATE, NLM_F_EXCL} ELSE {})
                  \cup {NLM_F_REQUEST}
                  \cup (IF delete THEN {} ELSE {NLM_F_CREATE, NLM_F_EXCL}),
               !.fix.family = AF_INET,
               !.fix.table = RT_TABLE_MAIN,
               !.fix.protocol = IF delete THEN 0
                                ELSE IF action # 0 THEN RTPROT_BOOT ELSE RTPROT_KERNEL,
               !.fix.scope = IF delete THEN RT_SCOPE_NOWHERE
                             ELSE IF gateway = INADDR_ANY THEN RT_SCOPE_LINK
                             ELSE RT_SCOPE_UNIVERSE,
               !.fix.type = IF delete THEN 0 ELSE RTN_UNICAST,
               !.fix.prefixlen = inet_ntocidr(netmask)]
      a1 == add_attr_l(n0, Sizeof(n0), RTA_DST, destination, SizeofU32)
      a2 == IF HasPrefsrc(action)
              THEN add_attr_l(a1.n, Sizeof(n0), RTA_PREFSRC, iface.addr, SizeofU32)
              ELSE a1
      a3 == add_attr_l(a2.n, Sizeof(n0), RTA_GATEWAY, gateway, SizeofU32)
      a4 == add_attr_32(a3.n, Sizeof(n0), RTA_OIF, ifindex)
      a5 == add_attr_32(a4.n, Sizeof(n0), RTA_PRIORITY, metric)
  IN
  IF ifindex = 0 THEN [r |-> -1, err |-> ENODEV, n |-> n0]
  ELSE [r |-> 0, err |-> AppendErrno(<< a1, a2, a3, a4, a5 >>), n |-> a5.n]

(* ---------------------------- environment ----------------------------- *)

\* interface names, as C strings without the NUL: "eth0", "wlan0", "lo", "ppp0"
Eth0 == << 101, 116, 104, 48 >>
Wlan0 == << 119, 108, 97, 110, 48 >>
Lo == << 108, 111 >>
Ppp0 == << 112, 112, 112, 48 >>
\* a name too long for the 64 bytes of struct nlma: 60 times "x"
LongName == [i \in 1 .. NlmaBuffer - SizeofRtattr |-> 120]

\* the kernel's interface table: every name is shorter than IF_NAMESIZE
KernelIfs == (Eth0 :> 2) @@ (Wlan0 :> 3)
\* an interface table that resolves a name of any length
AnyIfs == KernelIfs @@ (LongName :> 4)

\* what the callers pass: an interface the kernel knows or one it does not
Ifaces == { [name |-> Eth0, addr |-> << 192, 168, 0, 2 >>],
            [name |-> Ppp0, addr |-> << 10, 9, 0, 2 >>],
            [name |-> LongName, addr |-> << 10, 8, 0, 2 >> ] }
Addresses == { << 192, 168, 0, 2 >> }
Netmasks == { << 255, 255, 255, 0 >> }
Broadcasts == { << 192, 168, 0, 255 >> }
Destinations == { << 192, 168, 0, 0 >> }
Gateways == { INADDR_ANY, << 192, 168, 0, 1 >> }
Metrics == { 202 }
AddressActions == -1 .. 1
RouteActions == -3 .. 2

\* the kernel's encoding of an attribute list: each attribute padded to 4
RECURSIVE KAttrs(_)
KAttrs(as) ==
  IF as = << >> THEN << >>
  ELSE LET a == Head(as)
           len == SizeofRtattr + Len(a.data)
       IN U16(len) \o U16(a.rta_type) \o a.data
          \o Zeros(RTA_ALIGN(len) - len) \o KAttrs(Tail(as))

KMsg(len, type, error, flags, change, as) ==
  [nlmsg_len |-> len, nlmsg_type |-> type, error |-> error,
   ifi_flags |-> flags, ifi_change |-> change, rtbuf |-> KAttrs(as), attrs |-> as]

\* an acknowledgment with a full struct nlmsgerr, one cut short, a no-op
KAck(error) == KMsg(NLMSG_LENGTH(SizeofNlmsgerr), NLMSG_ERROR, error, {}, Zero32, << >>)
KAckShort == KMsg(NLMSG_LENGTH(SizeofU32), NLMSG_ERROR, 0, {}, Zero32, << >>)
KNoop == KMsg(NLMSG_LENGTH(0), NLMSG_NOOP, 0, {}, Zero32, << >>)

\* a link message: the struct ifinfomsg and the attributes after it
KLink(type, flags, change, as) ==
  KMsg(NLMSG_SPACE(SizeofIfinfomsg) + Len(KAttrs(as)), type, 0, flags, change, as)
\* a link message whose payload is shorter than a struct ifinfomsg
KLinkShort == KMsg(NLMSG_LENGTH(SizeofIfaddrmsg), RTM_NEWLINK, 0, {}, Zero32, << >>)

KName(name) == [rta_type |-> IFLA_IFNAME, data |-> name \o << 0 >>]
KWireless == [rta_type |-> IFLA_WIRELESS, data |-> << 139, 21, 0, 0 >>]

\* the attribute lists of the link messages: the name alone, or with a
\* wireless attribute before or after it
LinkAttrs(name) ==
  { << KName(name) >>, << KWireless, KName(name) >>, << KName(name), KWireless >> }

\* what arrives on a transaction socket, and on the monitor socket
TxMsgs == { KAck(0), KAck(-EACCES), KAckShort, KNoop }
LinkMsgs ==
  { KLink(t, {IFF_UP}, c, as) :
      t \in {RTM_NEWLINK, RTM_DELLINK}, c \in { Zero32, << 1, 0, 0, 0 >>, AllBits },
      as \in LinkAttrs(Eth0) }
  \cup { KLink(t, {IFF_UP, IFF_LOOPBACK}, c, << KName(Lo) >>) :
      t \in {RTM_NEWLINK, RTM_DELLINK}, c \in { Zero32, AllBits } }
  \cup { KLinkShort, KNoop }

\* no message
NoMsg == KMsg(0, 0, 0, {}, Zero32, << >>)

(* A datagram is kept as the nlmsg_len of each of its messages; what a     *)
(* message holds is drawn when the loop reaches it, from the messages of   *)
(* that length: nothing reads it before.                                    *)
RECURSIVE SeqsUpTo(_, _)
SeqsUpTo(lens, n) ==
  IF n = 0 THEN { << >> }
  ELSE LET shorter == SeqsUpTo(lens, n - 1)
       IN shorter \cup { Append(d, l) : d \in { x \in shorter : Len(x) = n - 1 }, l \in lens }
Datagrams(msgs) == SeqsUpTo({ m.nlmsg_len : m \in msgs }, MaxMsgs) \ { << >> }
TxDatagrams == Datagrams(TxMsgs)
LinkDatagrams == Datagrams(LinkMsgs)

\* the size of a datagram: its messages, each padded to 4
RECURSIVE DgramSize(_)
DgramSize(d) == IF d = << >> THEN 0 ELSE NLMSG_ALIGN(Head(d)) + DgramSize(Tail(d))

\* errno of a failed socket(), bind(), sendmsg(), recv() (other than
\* EAGAIN and EINTR)
SocketErrnos == { EMFILE }
BindErrnos == { EACCES }
SendErrnos == { ENOBUFS }
RecvErrnos == { ENOBUFS }

\* the calls of if_address and of if_route, and what each builds under each
\* interface table (computed once)
AddressCalls == Ifaces \X Addresses \X Netmasks \X Broadcasts \X AddressActions
RouteCalls == Ifaces \X Destinations \X Netmasks \X Gateways \X Metrics \X RouteActions
AddressBuilds ==
  [tab \in { KernelIfs, AnyIfs } |->
    [c \in AddressCalls |-> if_address(tab, c[1], c[2], c[3], c[4], c[5])]]
RouteBuilds ==
  [tab \in { KernelIfs, AnyIfs } |->
    [c \in RouteCalls |-> if_route(tab, c[1], c[2], c[3], c[4], c[5], c[6])]]

\* the listeners a caller of manage_link passes: if_carrier, if_add, if_remove
Registrations == { << TRUE, TRUE, TRUE >>, << FALSE, FALSE, FALSE >>, << TRUE, FALSE, TRUE >> }

(* ------------------------------- state -------------------------------- *)

VARIABLES
  pc,      \* where the process is: "idle" (between calls), "send" (if_address or
           \* if_route about to call send_netlink), "recv" (get_netlink at
           \* recv), "msg" (get_netlink in its loop, at a message that is NLMSG_OK)
  op,      \* the exported function last entered
  iftab,   \* the kernel's interface table
  fds,     \* the open descriptors of the process, each << number, the function
           \* that called socket() >>
  monfd,   \* the descriptor open_link_socket returned to its caller (-1: none)
  fd,      \* send_netlink's or manage_link's fd (-1: none)
  nl,      \* the listeners registered: nl_carrier, nl_add, nl_remove
  seq,     \* send_netlink's static seq
  nlm,     \* the request if_address or if_route allocated
  buffer,  \* get_netlink's buffer from nlm on: the nlmsg_len of each message
  bytes,   \* get_netlink's bytes
  cur,     \* the message the callback was last called with
  r,       \* get_netlink's r; what it returned, once it has
  errno,   \* the errno set since the exported function was entered (0: none)
  retval,  \* << v >> once the exported function last entered has returned v
  calls,   \* the listener calls made since the exported function was entered
  stamps,  \* the sequence numbers send_netlink has stamped, in order
  nrecv,   \* the recv calls of the running get_netlink that did not end it
  args,    \* the arguments of the running if_address or if_route; on the codec
           \* bench, of the last append
  appended,\* on the codec bench: the attributes appended to nlm, in order
  ev       \* what the last step did

vars == << pc, op, iftab, fds, monfd, fd, nl, seq, nlm, buffer, bytes, cur, r, errno,
           retval, calls, stamps, nrecv, args, appended, ev >>

\* a freed request
NoReq == [Alloc(0, 0) EXCEPT !.hdr.nlmsg_len = 0]

\* a faulty ++seq: seq is not static, so every call counts from 0 to 1
Incr_fresh(w) == << 1, 0, 0, 0 >>

\* ++seq on an unsigned int: the four bytes, with carry
RECURSIVE Incr(_)
Incr(w) ==
  IF w = << >> THEN << >>
  ELSE IF Head(w) = 255 THEN << 0 >> \o Incr(Tail(w))
  ELSE << Head(w) + 1 >> \o Tail(w)

\* a < b as unsigned 32-bit numbers
RECURSIVE Below(_, _)
Below(a, b) ==
  /\ a # << >>
  /\ \/ a[Len(a)] < b[Len(b)]
     \/ a[Len(a)] = b[Len(b)] /\ Below(SubSeq(a, 1, Len(a) - 1), SubSeq(b, 1, Len(b) - 1))

\* socket(): the lowest descriptor not open, or -1 when the table is full
Numbers(open) == { p[1] : p \in open }
socket(open) ==
  IF \E f \in 1 .. MaxFd : f \notin Numbers(open)
    THEN CHOOSE f \in 1 .. MaxFd :
           f \notin Numbers(open) /\ \A g \in 1 .. f - 1 : g \in Numbers(open)
    ELSE -1

\* a faulty close: the descriptor stays open
close_leak(open, f) == open

close(open, f) == { p \in open : p[1] # f }

\* NLMSG_OK(nlm, bytes), nlm the head of buf
NLMSG_OK(buf, len) ==
  /\ len >= SizeofNlmsghdr
  /\ buf # << >>
  /\ Head(buf) >= SizeofNlmsghdr
  /\ Head(buf) <= len

\* the state of a process that has made the stamps up to s0, at the place at
\* with the request n
InitWith(tab, s0, at, n) ==
  /\ pc = at
  /\ op = "none"
  /\ iftab = tab
  /\ fds = {}
  /\ monfd = -1
  /\ fd = -1
  /\ nl = {}
  /\ seq = s0
  /\ nlm = n
  /\ buffer = << >>
  /\ bytes = 0
  /\ cur = NoMsg
  /\ r = -1
  /\ errno = 0
  /\ retval = << >>
  /\ calls = << >>
  /\ stamps = << >>
  /\ nrecv = 0
  /\ args = << >>
  /\ appended = << >>
  /\ ev = "start"

\* a fresh process, or one that has made all but two of the 2^32 stamps
Init == \E s0 \in { Zero32, << 254, 255, 255, 255 >> } : InitWith(KernelIfs, s0, "idle", NoReq)

\* the same process under an interface table that resolves a name of any length
InitAnyName == InitWith(AnyIfs, Zero32, "idle", NoReq)

\* the codec bench: a struct nlma or a struct nlmr as the builders start it
InitCodec ==
  \E n \in { Alloc(SizeofIfaddrmsg, NlmaBuffer), Alloc(SizeofRtmsg, NlmrBuffer) } :
    InitWith(KernelIfs, Zero32, "codec", n)

(* ------------------------------ actions ------------------------------- *)

\* the flags manage_link and send_netlink pass to get_netlink
Flags == IF op = "manage_link" THEN MSG_DONTWAIT ELSE 0

\* if (send_netlink(&nlm->hdr) == -1) retval = -1;
Retval(rv) == IF rv = -1 THEN -1 ELSE 0

(* get_netlink returns rv: manage_link returns it; send_netlink closes its  *)
(* socket and returns it, and if_address / if_route free the request.      *)
Leave(rv) ==
  /\ pc' = "idle"
  /\ r' = rv
  /\ buffer' = << >>
  /\ bytes' = 0
  /\ nrecv' = 0
  /\ fd' = -1
  /\ args' = << >>
  /\ IF op = "manage_link"
       THEN /\ retval' = << rv >>
            /\ UNCHANGED << fds, nlm >>
       ELSE /\ retval' = << Retval(rv) >>
            /\ fds' = close(fds, fd)
            /\ nlm' = NoReq

(* send_netlink returns -1 before get_netlink, leaving open the descriptors *)
(* in open; if_address / if_route free the request and return -1.           *)
Fail(open, e, what) ==
  /\ pc' = "idle"
  /\ retval' = << Retval(-1) >>
  /\ errno' = e
  /\ fds' = open
  /\ nlm' = NoReq
  /\ args' = << >>
  /\ ev' = what
  /\ UNCHANGED << fd, r, buffer, bytes, nrecv >>

OpenLinkSocket ==
  /\ pc = "idle"
  /\ monfd = -1
  /\ op' = "open_link_socket"
  /\ \E sockok \in BOOLEAN, bindok \in BOOLEAN, e \in SocketErrnos \cup BindErrnos :
       LET f == socket(fds) IN
       IF f = -1 \/ ~sockok
         THEN /\ e \in SocketErrnos
              /\ retval' = << -1 >> /\ errno' = e /\ ev' = "socket failed"
              /\ UNCHANGED << fds, monfd >>
       ELSE IF ~bindok
         THEN /\ e \in BindErrnos
              /\ retval' = << -1 >> /\ errno' = e /\ ev' = "bind failed"
              /\ fds' = fds \cup { << f, "open_link_socket" >> }
              /\ UNCHANGED monfd
       ELSE /\ e \in SocketErrnos
            /\ retval' = << f >> /\ errno' = 0 /\ ev' = "opened"
            /\ fds' = fds \cup { << f, "open_link_socket" >> }
            /\ monfd' = f
  /\ calls' = << >>
  /\ cur' = NoMsg
  /\ r' = -1
  /\ UNCHANGED << pc, iftab, fd, nl, seq, nlm, buffer, bytes, stamps, nrecv, args, appended >>

ManageLink(if_carrier, if_add, if_remove) ==
  /\ pc = "idle"
  /\ monfd # -1
  /\ op' = "manage_link"
  /\ nl' = (IF if_carrier THEN { "nl_carrier" } ELSE {})
           \cup (IF if_add THEN { "nl_add" } ELSE {})
           \cup (IF if_remove THEN { "nl_remove" } ELSE {})
  /\ fd' = monfd
  /\ r' = -1
  /\ buffer' = << >>
  /\ bytes' = 0
  /\ nrecv' = 0
  /\ calls' = << >>
  /\ cur' = NoMsg
  /\ errno' = 0
  /\ retval' = << >>
  /\ pc' = "recv"
  /\ ev' = "manage_link"
  /\ UNCHANGED << iftab, fds, monfd, seq, nlm, stamps, args, appended >>

\* if_address or if_route, called with the arguments c, has built: b is the
\* builder's result
Built(b, name, c) ==
  /\ op' = name
  /\ IF b.r = -1
       THEN /\ pc' = "idle"
            /\ retval' = << -1 >>
            /\ nlm' = NoReq
            /\ args' = << >>
            /\ ev' = "no device"
       ELSE /\ pc' = "send"
            /\ retval' = << >>
            /\ nlm' = b.n
            /\ args' = c
            /\ ev' = "built"
  /\ errno' = b.err
  /\ calls' = << >>
  /\ cur' = NoMsg
  /\ r' = -1
  /\ UNCHANGED << iftab, fds, monfd, fd, nl, seq, buffer, bytes, stamps, nrecv, appended >>

IfAddress(iface, address, netmask, broadcast, action) ==
  /\ pc = "idle"
  /\ Len(stamps) < MaxTx
  /\ Built(AddressBuilds[iftab][<< iface, address, netmask, broadcast, action >>], "if_address",
           [iface |-> iface, address |-> address, netmask |-> netmask,
            broadcast |-> broadcast, action |-> action])

IfRoute(iface, destination, netmask, gateway, metric, action) ==
  /\ pc = "idle"
  /\ Len(stamps) < MaxTx
  /\ Built(RouteBuilds[iftab][<< iface, destination, netmask, gateway, metric, action >>],
           "if_route",
           [iface |-> iface, destination |-> destination, netmask |-> netmask,
            gateway |-> gateway, metric |-> metric, action |-> action])

SendNetlink ==
  /\ pc = "send"
  /\ \E sockok \in BOOLEAN, bindok \in BOOLEAN, sendok \in BOOLEAN,
        e \in SocketErrnos \cup BindErrnos \cup SendErrnos :
       LET f == socket(fds) IN
       IF f = -1 \/ ~sockok
         THEN /\ e \in SocketErrnos
              /\ Fail(fds, e, "socket failed")
              /\ UNCHANGED << seq, stamps >>
       ELSE IF ~bindok
         THEN /\ e \in BindErrnos
              /\ Fail(close(fds \cup { << f, "send_netlink" >> }, f), e, "bind failed")
              /\ UNCHANGED << seq, stamps >>
       ELSE /\ e \in SendErrnos
            /\ seq' = Incr(seq)
            /\ stamps' = Append(stamps, seq')
            /\ IF ~sendok
                 THEN Fail(close(fds \cup { << f, "send_netlink" >> }, f), e, "send failed")
                 ELSE /\ nlm' = [nlm EXCEPT !.hdr.nlmsg_flags = @ \cup { NLM_F_ACK },
                                            !.hdr.nlmsg_seq = seq']
                      /\ fds' = fds \cup { << f, "send_netlink" >> }
                      /\ fd' = f
                      /\ r' = -1
                      /\ buffer' = << >>
                      /\ bytes' = 0
                      /\ nrecv' = 0
                      /\ pc' = "recv"
                      /\ ev' = "sent"
                      /\ UNCHANGED << errno, retval, args >>
  /\ UNCHANGED << op, iftab, monfd, nl, cur, calls, appended >>

\* what the kernel sends on the socket get_netlink reads
Msgs == IF op = "manage_link" THEN LinkMsgs ELSE TxMsgs

\* recv fills the buffer with a datagram: the loop starts at its first message
RecvData ==
  /\ pc = "recv"
  /\ nrecv < MaxRecv
  /\ \E d \in (IF op = "manage_link" THEN LinkDatagrams ELSE TxDatagrams) :
       /\ buffer' = d
       /\ bytes' = Min(DgramSize(d), BUFFERLEN)
       /\ pc' = IF NLMSG_OK(d, Min(DgramSize(d), BUFFERLEN)) THEN "msg" ELSE "recv"
  /\ nrecv' = nrecv + 1
  /\ ev' = "received"
  /\ UNCHANGED << op, iftab, fds, monfd, fd, nl, seq, nlm, cur, r, errno, retval, calls, stamps,
                  args, appended >>

\* recv fails with EINTR: continue
RecvIntr ==
  /\ pc = "recv"
  /\ nrecv < MaxRecv
  /\ nrecv' = nrecv + 1
  /\ errno' = EINTR
  /\ ev' = "interrupted"
  /\ UNCHANGED << pc, op, iftab, fds, monfd, fd, nl, seq, nlm, buffer, bytes, cur, r, retval,
                  calls, stamps, args, appended >>

\* a faulty EAGAIN branch: no r = 0
RecvAgain_error ==
  /\ pc = "recv"
  /\ Flags = MSG_DONTWAIT
  /\ errno' = EAGAIN
  /\ ev' = "no data"
  /\ Leave(r)
  /\ UNCHANGED << op, iftab, monfd, nl, seq, cur, calls, stamps, appended >>

\* recv fails with EAGAIN, which a blocking socket never does: r = 0
RecvAgain ==
  /\ pc = "recv"
  /\ Flags = MSG_DONTWAIT
  /\ errno' = EAGAIN
  /\ ev' = "no data"
  /\ Leave(0)
  /\ UNCHANGED << op, iftab, monfd, nl, seq, cur, calls, stamps, appended >>

\* recv fails with another error: goto eexit with r as it is
RecvError ==
  /\ pc = "recv"
  /\ \E e \in RecvErrnos : errno' = e
  /\ ev' = "receive failed"
  /\ Leave(r)
  /\ UNCHANGED << op, iftab, monfd, nl, seq, cur, calls, stamps, appended >>

\* a faulty loop: if (r == -1) goto eexit, so a positive status goes on
Callback_negative ==
  /\ pc = "msg"
  /\ \E m \in { x \in Msgs : x.nlmsg_len = Head(buffer) } :
       LET res == IF op = "manage_link" THEN link_netlink(m, nl) ELSE err_netlink(m)
           rest == bytes - NLMSG_ALIGN(m.nlmsg_len)
       IN /\ cur' = m
          /\ calls' = calls \o res.calls
          /\ errno' = IF res.err # 0 THEN res.err ELSE errno
          /\ IF res.r = -1
               THEN /\ Leave(res.r)
                    /\ ev' = "stopped"
               ELSE /\ r' = res.r
                    /\ buffer' = Tail(buffer)
                    /\ bytes' = rest
                    /\ pc' = IF NLMSG_OK(Tail(buffer), rest) THEN "msg" ELSE "recv"
                    /\ ev' = "continued"
                    /\ UNCHANGED << fds, fd, nlm, retval, nrecv, args >>
  /\ UNCHANGED << op, iftab, monfd, nl, seq, stamps, appended >>

\* one turn of the loop over the messages of the buffer
Callback ==
  /\ pc = "msg"
  /\ \E m \in { x \in Msgs : x.nlmsg_len = Head(buffer) } :
       LET res == IF op = "manage_link" THEN link_netlink(m, nl) ELSE err_netlink(m)
           rest == bytes - NLMSG_ALIGN(m.nlmsg_len)
       IN /\ cur' = m
          /\ calls' = calls \o res.calls
          /\ errno' = IF res.err # 0 THEN res.err ELSE errno
          /\ IF res.r # 0
               THEN /\ Leave(res.r)
                    /\ ev' = "stopped"
               ELSE /\ r' = 0
                    /\ buffer' = Tail(buffer)
                    /\ bytes' = rest
                    /\ pc' = IF NLMSG_OK(Tail(buffer), rest) THEN "msg" ELSE "recv"
                    /\ ev' = "continued"
                    /\ UNCHANGED << fds, fd, nlm, retval, nrecv, args >>
  /\ UNCHANGED << op, iftab, monfd, nl, seq, stamps, appended >>

Next ==
  \/ OpenLinkSocket
  \/ \E reg \in Registrations : ManageLink(reg[1], reg[2], reg[3])
  \/ \E i \in Ifaces, a \in Addresses, m \in Netmasks, b \in Broadcasts, x \in AddressActions :
       IfAddress(i, a, m, b, x)
  \/ \E i \in Ifaces, d \in Destinations, m \in Netmasks, g \in Gateways, t \in Metrics,
        x \in RouteActions : IfRoute(i, d, m, g, t, x)
  \/ SendNetlink
  \/ RecvData
  \/ RecvIntr
  \/ RecvAgain
  \/ RecvError
  \/ Callback

Spec == Init /\ [][Next]_vars

SpecAnyName == InitAnyName /\ [][Next]_vars

\* a process that only watches links
NextMonitor ==
  \/ OpenLinkSocket
  \/ \E reg \in Registrations : ManageLink(reg[1], reg[2], reg[3])
  \/ RecvData
  \/ RecvIntr
  \/ RecvAgain
  \/ RecvError
  \/ Callback

\* the steps of get_netlink
Pump == RecvData \/ RecvIntr \/ RecvAgain \/ RecvError \/ Callback

\* with MSG_DONTWAIT recv returns at once, and link_netlink returns: a running
\* manage_link takes its next step
SpecMonitor == Init /\ [][NextMonitor]_vars /\ WF_vars(Pump)

(* ---------------------------- codec bench ----------------------------- *)

\* n bytes of value b
Fill(n, b) == [i \in 1 .. n |-> b]

\* the values appended: empty, unaligned, a word, ones that fill a struct
\* nlma (60 + 4 = 64) or a struct nlmr (252 + 4 = 256) to the last byte
BenchData == { << >>, << 7 >>, << 9, 9, 9, 9 >>, << 11, 11, 11, 11, 11 >>,
               Fill(NlmaBuffer - SizeofRtattr, 15), Fill(NlmrBuffer - SizeofRtattr, 17) }
BenchTypes == { IFA_LOCAL, IFA_LABEL }
BenchWords == { 2 }

AppendResult(res, type, data) ==
  /\ nlm' = res.n
  /\ r' = res.r
  /\ errno' = res.err
  /\ args' = [rta_type |-> type, data |-> data]
  /\ appended' = IF res.r = 0 THEN Append(appended, [rta_type |-> type, data |-> data])
                  ELSE appended
  /\ ev' = IF res.r = 0 THEN "appended" ELSE "append failed"
  /\ UNCHANGED << pc, op, iftab, fds, monfd, fd, nl, seq, buffer, bytes, cur, retval, calls,
                  stamps, nrecv >>

AppendL(type, data) ==
  /\ pc = "codec"
  /\ Len(appended) < MaxAppends
  /\ AppendResult(add_attr_l(nlm, Sizeof(nlm), type, data, Len(data)), type, data)

Append32(type, data) ==
  /\ pc = "codec"
  /\ Len(appended) < MaxAppends
  /\ AppendResult(add_attr_32(nlm, Sizeof(nlm), type, data), type, U32(data))

NextCodec ==
  \/ \E t \in BenchTypes, d \in BenchData : AppendL(t, d)
  \/ \E t \in BenchTypes, d \in BenchWords : Append32(t, d)

SpecCodec == InitCodec /\ [][NextCodec]_vars

(* ------------------------------ properties ---------------------------- *)

Tx == { "if_address", "if_route" }

\* manage_link called with its three listeners
Listeners == { "nl_carrier", "nl_add", "nl_remove" }

\* the callback has just been called with cur
Called == ev \in { "continued", "stopped" }

\* a link message with a whole struct ifinfomsg
LinkFull(m) ==
  /\ m.nlmsg_type \in { RTM_NEWLINK, RTM_DELLINK }
  /\ m.nlmsg_len - SizeofNlmsghdr >= SizeofIfinfomsg

\* the attributes of type t the kernel put in m
AttrsOf(m, t) == { i \in DOMAIN m.attrs : m.attrs[i].rta_type = t }

\* the name the kernel put in m's name attribute
NameOf(m) ==
  LET d == m.attrs[CHOOSE i \in AttrsOf(m, IFLA_IFNAME) : TRUE].data
  IN SubSeq(d, 1, Len(d) - 1)

\* the wireless-noise rule
Noise(m) ==
  /\ m.nlmsg_type = RTM_NEWLINK
  /\ m.ifi_change = Zero32
  /\ AttrsOf(m, IFLA_WIRELESS) # {}

(* C1: whenever recv fails with an error other than EAGAIN and EINTR,      *)
(* get_netlink returns -1, whatever the callback returned before.          *)
C1_ReceiveFailureReturnsFailure ==
  ev = "receive failed" => r = -1

(* C2: in a transaction, a message that is not NLMSG_ERROR is skipped and  *)
(* the pump goes on; an NLMSG_ERROR message ends the call: with 0 if its   *)
(* payload is a whole struct nlmsgerr with error 0, with -1 and errno the  *)
(* negated code if the code is not 0, with -1 and EBADMSG if the payload   *)
(* is shorter.                                                             *)
C2_AckDecides ==
  (op \in Tx /\ Called) =>
    IF cur.nlmsg_type # NLMSG_ERROR
      THEN ev = "continued" /\ pc \in { "msg", "recv" } /\ retval = << >>
    ELSE /\ ev = "stopped"
         /\ pc = "idle"
         /\ IF cur.nlmsg_len - SizeofNlmsghdr < SizeofNlmsgerr
              THEN retval = << -1 >> /\ errno = EBADMSG
            ELSE IF cur.error = 0
              THEN retval = << 0 >> /\ r # -1
            ELSE retval = << -1 >> /\ errno = -cur.error

C2_Witness ==
  /\ op = "if_address"
  /\ ev = "stopped"
  /\ cur.nlmsg_type = NLMSG_ERROR
  /\ cur.error = -EACCES
  /\ retval = << -1 >>
  /\ errno = EACCES

(* C3: outside get_netlink no descriptor that send_netlink opened is open: *)
(* send_netlink has closed its socket on every path by which it returns.   *)
C3_TransactionSocketClosed ==
  /\ pc \in { "idle", "send" } => \A p \in fds : p[2] # "send_netlink"
  /\ Cardinality({ p \in fds : p[2] = "send_netlink" }) <= 1

C3_Witness ==
  /\ op = "if_route"
  /\ pc = "idle"
  /\ ev = "receive failed"
  /\ retval = << -1 >>

(* C4: a link message with a whole struct ifinfomsg, no IFF_LOOPBACK, the  *)
(* name N, not wireless noise, with the three listeners registered, makes  *)
(* exactly one listener call: nl_add(N) for RTM_NEWLINK with ifi_change    *)
(* all ones, nl_carrier(N) for RTM_NEWLINK with any other ifi_change,      *)
(* nl_remove(N) for RTM_DELLINK.                                           *)
C4_OneListenerCall ==
  ( /\ op = "manage_link"
    /\ ev = "stopped"
    /\ LinkFull(cur)
    /\ IFF_LOOPBACK \notin cur.ifi_flags
    /\ AttrsOf(cur, IFLA_IFNAME) # {}
    /\ ~Noise(cur)
    /\ nl = Listeners )
  => calls = << [cb |-> IF cur.nlmsg_type = RTM_DELLINK THEN "nl_remove"
                        ELSE IF cur.ifi_change = AllBits THEN "nl_add"
                        ELSE "nl_carrier",
                 ifn |-> NameOf(cur)] >>

C4_Witness ==
  /\ op = "manage_link"
  /\ ev = "stopped"
  /\ nl = Listeners
  /\ cur.nlmsg_type = RTM_NEWLINK
  /\ cur.ifi_change = << 1, 0, 0, 0 >>
  /\ calls = << [cb |-> "nl_carrier", ifn |-> Eth0] >>

(* C5: a link message of a loopback interface, and an RTM_NEWLINK with     *)
(* ifi_change 0 that carries a wireless attribute (before or after the     *)
(* name), make no listener call, and link_netlink returns 1, not -1.       *)
C5_NoiseDropped ==
  ( /\ op = "manage_link"
    /\ ev = "stopped"
    /\ LinkFull(cur)
    /\ (IFF_LOOPBACK \in cur.ifi_flags \/ Noise(cur)) )
  => calls = << >> /\ retval = << 1 >>

C5_Witness ==
  /\ op = "manage_link"
  /\ ev = "stopped"
  /\ nl = Listeners
  /\ Noise(cur)
  /\ IFF_LOOPBACK \notin cur.ifi_flags
  /\ cur.attrs[1].rta_type = IFLA_IFNAME
  /\ calls = << >>

\* the bytes an attribute with a value of n bytes takes
AlignedSize(n) == 4 * ((SizeofRtattr + n + 3) \div 4)

(* C6: an append whose aligned size would take the message past its        *)
(* capacity returns -1 with ENOBUFS and changes neither nlmsg_len nor a    *)
(* byte of the message; an append that fits returns 0.                     *)
C6_AppendOverflow ==
  [][ pc = "codec" =>
        IF 4 * ((nlm.hdr.nlmsg_len + 3) \div 4) + AlignedSize(Len(args'.data)) > Sizeof(nlm)
          THEN r' = -1 /\ errno' = ENOBUFS /\ nlm' = nlm
          ELSE r' = 0 ]_vars

C6_Witness ==
  /\ pc = "codec"
  /\ ev = "append failed"
  /\ Len(appended) >= 2
  /\ r = -1

C8_SeqStrictlyIncreases ==
  \A i \in DOMAIN stamps : \A j \in DOMAIN stamps :
    i < j => Below(stamps[i], stamps[j])

(* C8, amended: each stamp is greater than the one before, except that 0   *)
(* follows 2^32 - 1; so of two stamps the later is the greater unless the  *)
(* counter wrapped between them.                                           *)
C8_SeqIncreasesUntilWrap ==
  /\ \A i \in DOMAIN stamps :
       i > 1 => IF stamps[i - 1] = AllBits THEN stamps[i] = Zero32
                ELSE Below(stamps[i - 1], stamps[i])
  /\ \A i \in DOMAIN stamps : \A j \in DOMAIN stamps :
       (i < j /\ \A k \in i .. j - 1 : stamps[k] # AllBits) => Below(stamps[i], stamps[j])

C8_Witness ==
  /\ Len(stamps) >= 2
  /\ stamps[1] # AllBits
  /\ Below(stamps[1], stamps[2])

\* the values of the attributes of type t in the request, in order
Values(n, t) ==
  LET as == Attrs(n)
      F[i \in 0 .. Len(as)] ==
        IF i = 0 THEN << >>
        ELSE IF as[i].rta_type = t THEN Append(F[i - 1], as[i].data) ELSE F[i - 1]
  IN F[Len(as)]

\* the types of the attributes of the request, in order
Types(n) == [i \in DOMAIN Attrs(n) |-> Attrs(n)[i].rta_type]

(* C9: the request if_address builds has a label attribute holding the     *)
(* interface name and a local-address attribute, has a broadcast attribute *)
(* iff action >= 0, and is RTM_NEWADDR with NLM_F_CREATE and NLM_F_REPLACE  *)
(* if action >= 0, RTM_DELADDR with neither if action < 0.                 *)
C9_AddressRequest ==
  (op = "if_address" /\ pc # "idle") =>
    /\ Values(nlm, IFA_LABEL) = << args.iface.name \o << 0 >> >>
    /\ Values(nlm, IFA_LOCAL) = << args.address >>
    /\ Values(nlm, IFA_BROADCAST) = IF args.action >= 0 THEN << args.broadcast >> ELSE << >>
    /\ IF args.action >= 0
         THEN /\ nlm.hdr.nlmsg_type = RTM_NEWADDR
              /\ { NLM_F_CREATE, NLM_F_REPLACE } \subseteq nlm.hdr.nlmsg_flags
         ELSE /\ nlm.hdr.nlmsg_type = RTM_DELADDR
              /\ { NLM_F_CREATE, NLM_F_REPLACE } \cap nlm.hdr.nlmsg_flags = {}

C9_Witness ==
  /\ op = "if_address"
  /\ ev = "sent"
  /\ args.action < 0
  /\ nlm.hdr.nlmsg_type = RTM_DELADDR
  /\ Types(nlm) = << IFA_LABEL, IFA_LOCAL >>

(* C10: the request if_route builds has the attributes RTA_DST,            *)
(* RTA_GATEWAY, RTA_OIF and RTA_PRIORITY in that order, and between        *)
(* RTA_DST and RTA_GATEWAY an RTA_PREFSRC iff action != 1.                 *)
C10_RouteAttributes ==
  (op = "if_route" /\ pc # "idle") =>
    /\ Types(nlm) = IF args.action # 1
                      THEN << RTA_DST, RTA_PREFSRC, RTA_GATEWAY, RTA_OIF, RTA_PRIORITY >>
                      ELSE << RTA_DST, RTA_GATEWAY, RTA_OIF, RTA_PRIORITY >>
    /\ Values(nlm, RTA_DST) = << args.destination >>
    /\ Values(nlm, RTA_GATEWAY) = << args.gateway >>
    /\ Values(nlm, RTA_OIF) = << U32(iftab[args.iface.name]) >>
    /\ Values(nlm, RTA_PRIORITY) = << U32(args.metric) >>
    /\ args.action # 1 => Values(nlm, RTA_PREFSRC) = << args.iface.addr >>

C10_Witness ==
  /\ op = "if_route"
  /\ ev = "sent"
  /\ args.action = 1
  /\ Types(nlm) = << RTA_DST, RTA_GATEWAY, RTA_OIF, RTA_PRIORITY >>

(* C11: a call of if_address or if_route goes on to send_netlink only if   *)
(* the kernel knows the interface name; otherwise it returns -1 with       *)
(* ENODEV, and no descriptor is opened, no sequence number is stamped and  *)
(* seq is as it was.                                                       *)
C11_NoDeviceBeforeSocket ==
  [][ (pc = "idle" /\ op' \in Tx) =>
        \/ /\ ev' = "built"
           /\ pc' = "send"
           /\ args'.iface.name \in DOMAIN iftab
           /\ iftab[args'.iface.name] # 0
        \/ /\ ev' = "no device"
           /\ pc' = "idle"
           /\ retval' = << -1 >>
           /\ errno' = ENODEV
           /\ fds' = fds
           /\ seq' = seq
           /\ stamps' = stamps ]_vars

C11_Witness ==
  /\ op = "if_route"
  /\ ev = "no device"
  /\ retval = << -1 >>
  /\ errno = ENODEV
  /\ Len(stamps) = 1
  /\ seq = stamps[1]

(* C12: a call of manage_link returns, when the socket holds finitely many *)
(* datagrams and recv is interrupted finitely often; after EINTR the call  *)
(* is still running and receives again; EAGAIN makes it return 0.          *)
C12_MonitorReturns ==
  /\ [](ev = "interrupted" => pc = "recv" /\ retval = << >>)
  /\ []((op = "manage_link" /\ ev = "no data") => pc = "idle" /\ retval = << 0 >>)
  /\ (op = "manage_link" /\ pc # "idle") ~> (pc = "idle" /\ retval # << >>)

C12_Witness ==
  /\ op = "manage_link"
  /\ ev = "no data"
  /\ retval = << 0 >>
  /\ cur.nlmsg_type = NLMSG_NOOP

(* C13: the attributes appended to a message, read back with RTA_OK and    *)
(* RTA_NEXT from the end of the fixed payload, are the appended (type,     *)
(* value) pairs in the order of the appends, without the padding.          *)
C13_AttributeRoundTrip ==
  pc = "codec" =>
    /\ Len(Attrs(nlm)) = Len(appended)
    /\ \A i \in DOMAIN appended :
         /\ Attrs(nlm)[i].rta_type = appended[i].rta_type
         /\ Attrs(nlm)[i].data = appended[i].data

C13_Witness ==
  /\ pc = "codec"
  /\ Len(appended) = 3
  /\ appended[1].data = << 7 >>
  /\ appended[2].data = << >>
  /\ Len(appended[3].data) = 5
  /\ Len(Attrs(nlm)) = 3

(* C14: when manage_link returns because link_netlink returned 1 for a     *)
(* link message, no complete link message of the same datagram is left     *)
(* undecoded in the buffer.                                                *)
C14_NoLinkMessageLeft ==
  [][ (op = "manage_link" /\ pc = "msg" /\ pc' = "idle" /\ r' = 1) =>
        ~( /\ NLMSG_OK(Tail(buffer), bytes - NLMSG_ALIGN(Head(buffer)))
           /\ buffer[2] >= NLMSG_SPACE(SizeofIfinfomsg) ) ]_vars

\* what the callback of the running get_netlink returns for m
Handled(m) == IF op = "manage_link" THEN link_netlink(m, nl) ELSE err_netlink(m)

(* C15: when the callback returns a nonzero status for a message,          *)
(* get_netlink returns that status at once: the callback is not called for *)
(* a later message and recv is not called again. So every NLMSG_ERROR      *)
(* message a transaction passes to err_netlink ends it, and between the    *)
(* send and the return of send_netlink no further request is stamped.      *)
C15_StopIsFinal ==
  [][ /\ (pc = "msg" /\ Handled(cur').r # 0) =>
           /\ pc' = "idle"
           /\ ev' = "stopped"
           /\ r' = Handled(cur').r
           /\ calls' = calls \o Handled(cur').calls
           /\ retval' = << IF op = "manage_link" \/ r' = -1 THEN r' ELSE 0 >>
      /\ (pc = "msg" /\ op \in Tx /\ cur'.nlmsg_type = NLMSG_ERROR) => pc' = "idle"
      /\ pc \in { "recv", "msg" } => stamps' = stamps /\ seq' = seq ]_vars

C15_Witness ==
  /\ op = "if_route"
  /\ ev = "stopped"
  /\ cur.nlmsg_type = NLMSG_ERROR
  /\ cur.error = 0
  /\ r = SizeofNlmsgerr
  /\ retval = << 0 >>
  /\ Len(stamps) = 1

(* C16: the request of if_route has NLM_F_REPLACE and neither NLM_F_CREATE *)
(* nor NLM_F_EXCL for action 0, NLM_F_CREATE and NLM_F_EXCL and no         *)
(* NLM_F_REPLACE for action 1, NLM_F_REQUEST for every action, and         *)
(* NLM_F_ACK once it is sent.                                              *)
C16_RouteFlags ==
  (op = "if_route" /\ pc # "idle") =>
    /\ args.action = 0 =>
         /\ NLM_F_REPLACE \in nlm.hdr.nlmsg_flags
         /\ NLM_F_CREATE \notin nlm.hdr.nlmsg_flags
         /\ NLM_F_EXCL \notin nlm.hdr.nlmsg_flags
    /\ args.action = 1 =>
         /\ NLM_F_CREATE \in nlm.hdr.nlmsg_flags
         /\ NLM_F_EXCL \in nlm.hdr.nlmsg_flags
         /\ NLM_F_REPLACE \notin nlm.hdr.nlmsg_flags
    /\ NLM_F_REQUEST \in nlm.hdr.nlmsg_flags
    /\ pc \in { "recv", "msg" } => NLM_F_ACK \in nlm.hdr.nlmsg_flags

(* C17: for every action, a request of if_route of type RTM_DELROUTE has   *)
(* scope RT_SCOPE_NOWHERE and not the route type RTN_UNICAST, and one of   *)
(* type RTM_NEWROUTE has route type RTN_UNICAST and scope RT_SCOPE_LINK if *)
(* the gateway is INADDR_ANY, RT_SCOPE_UNIVERSE if not.                    *)
C17_RouteScope ==
  (op = "if_route" /\ pc # "idle") =>
    IF nlm.hdr.nlmsg_type = RTM_DELROUTE
      THEN /\ nlm.fix.scope = RT_SCOPE_NOWHERE
           /\ nlm.fix.type # RTN_UNICAST
      ELSE /\ nlm.hdr.nlmsg_type = RTM_NEWROUTE
           /\ nlm.fix.type = RTN_UNICAST
           /\ nlm.fix.scope = IF args.gateway = INADDR_ANY THEN RT_SCOPE_LINK
                              ELSE RT_SCOPE_UNIVERSE

\* the sum of the aligned sizes of the attributes as
AlignedSum(as) ==
  LET F[i \in 0 .. Len(as)] ==
        IF i = 0 THEN 0 ELSE F[i - 1] + AlignedSize(Len(as[i].data))
  IN F[Len(as)]

(* C18: after any run of appends, failed ones included, on a message that  *)
(* began as header plus fixed payload, nlmsg_len is the header size plus   *)
(* the aligned size of the fixed payload plus the aligned sizes of the     *)
(* attributes appended with success, is a multiple of 4, and is at most    *)
(* the capacity.                                                           *)
C18_Framing ==
  pc = "codec" =>
    /\ nlm.hdr.nlmsg_len =
         SizeofNlmsghdr + 4 * ((nlm.fixlen + 3) \div 4) + AlignedSum(appended)
    /\ nlm.hdr.nlmsg_len % 4 = 0
    /\ nlm.hdr.nlmsg_len <= Sizeof(nlm)

C18_Witness ==
  /\ pc = "codec"
  /\ ev = "append failed"
  /\ Len(appended) = 2
  /\ Len(appended[1].data) = 1
  /\ Len(appended[2].data) = 5
  /\ nlm.fixlen = SizeofIfaddrmsg
  /\ nlm.hdr.nlmsg_len = 44

(* C19: if_address and if_route return 0 only if err_netlink was passed,   *)
(* during that call, an NLMSG_ERROR message with a whole struct nlmsgerr   *)
(* and error 0.                                                            *)
C19_SuccessMeansAcknowledged ==
  (op \in Tx /\ pc = "idle" /\ retval = << 0 >>) =>
    /\ cur.nlmsg_type = NLMSG_ERROR
    /\ cur.nlmsg_len - SizeofNlmsghdr >= SizeofNlmsgerr
    /\ cur.error = 0

(* C20: every descriptor open_link_socket created is the one it returned   *)
(* to its caller or is closed; after a failed bind the call has returned   *)
(* -1 and its socket is not open.                                          *)
C20_NoMonitorSocketLeak ==
  /\ \A p \in fds : p[2] = "open_link_socket" => p[1] = monfd
  /\ (op = "open_link_socket" /\ ev = "bind failed") => retval = << -1 >>

====
